---- MODULE Spec2Model ----
(***************************************************************************)
(* Model of resolve_ips.py: read a comma separated list of domains, resolve *)
(* each one, write the mapping as JSON, derive the flat IP catalog and      *)
(* publish it through git.                                                   *)
(*                                                                           *)
(* Python strings are modelled as sequences of one-character strings; IP     *)
(* address strings are modelled as sequences of code points, so that the     *)
(* order used by sorted() (code point by code point) can be computed.        *)
(***************************************************************************)
EXTENDS Integers, Sequences, FiniteSets, TLC

\* ------------------------------------------------------------------ bounds
MaxContentLen == 5      \* characters in the input file (pipeline)
MaxPieces == 4          \* pieces a raw token is assembled from (normalizer)
MaxKeys == 2            \* keys of a mapping handed to the catalog derivation

\* ----------------------------------------------------------- str helpers
Whitespace == {" ", "\t", "\n"}

RECURSIVE LStrip(_)
\* str.lstrip(): drop leading whitespace
LStrip(s) ==
    IF s = <<>> THEN <<>>
    ELSE IF Head(s) \in Whitespace THEN LStrip(Tail(s)) ELSE s

RECURSIVE RStrip(_)
\* str.rstrip(): drop trailing whitespace
RStrip(s) ==
    IF s = <<>> THEN <<>>
    ELSE IF s[Len(s)] \in Whitespace THEN RStrip(SubSeq(s, 1, Len(s) - 1)) ELSE s

\* str.strip()
Strip(s) == RStrip(LStrip(s))

\* str.startswith(p)
StartsWith(s, p) == Len(s) >= Len(p) /\ SubSeq(s, 1, Len(p)) = p

\* str.find(p) + 1: index of the first occurrence of p in s, 0 when absent
Find(s, p) ==
    LET hits == {i \in 1..(Len(s) - Len(p) + 1) : SubSeq(s, i, i + Len(p) - 1) = p}
    IN IF hits = {} THEN 0 ELSE CHOOSE i \in hits : \A j \in hits : i <= j

RECURSIVE Split(_, _)
\* str.split(sep): the pieces between the occurrences of sep, at least one
Split(s, sep) ==
    LET k == Find(s, sep)
    IN IF k = 0 THEN <<s>>
       ELSE <<SubSeq(s, 1, k - 1)>> \o Split(SubSeq(s, k + Len(sep), Len(s)), sep)

\* str.split(sep, 1)[1]: what follows the first occurrence of sep
SplitOnceAfter(s, sep) ==
    LET k == Find(s, sep) IN SubSeq(s, k + Len(sep), Len(s))

HttpPrefix == <<"h", "t", "t", "p", ":", "/", "/">>
HttpsPrefix == <<"h", "t", "t", "p", "s", ":", "/", "/">>
SchemeSep == <<":", "/", "/">>
WwwPrefix == <<"w", "w", "w", ".">>
Slash == <<"/">>
Comma == <<",">>

\* ------------------------------------------------------------ normalizer
StripScheme(s) ==
    IF StartsWith(s, HttpPrefix) \/ StartsWith(s, HttpsPrefix)
    THEN SplitOnceAfter(s, SchemeSep) ELSE s

StripWww(s) == IF StartsWith(s, WwwPrefix) THEN SubSeq(s, 5, Len(s)) ELSE s

DropPath(s) == Split(s, Slash)[1]

\* a normalizer that forgets to cut the path
clean_domain_keeps_path(domain) == StripWww(StripScheme(Strip(domain)))

\* a normalizer that removes www. before the scheme
clean_domain_www_first(domain) == DropPath(StripScheme(StripWww(Strip(domain))))

\* resolve_domain_ips, lines 30-37: the name handed to getaddrinfo
clean_domain(domain) == DropPath(StripWww(StripScheme(Strip(domain))))

\* ---------------------------------------------------------------- state
VARIABLES
    \* normalizer runs (resolve_domain_ips up to the lookup)
    nPc, nTok, nHost, nAgain,
    \* catalog derivations (create_ip_list_for_git)
    cPc, cRes, cList, cAgain,
    \* one run of main()
    pc,          \* position in main() / push_to_git()
    content,     \* text of the input file
    no_git,       \* args.no_git
    output,      \* args.output
    readStatus,  \* history: how read_domains_from_file ended
    domains,     \* list returned by read_domains_from_file
    idx,         \* position of the resolution loop (1-based)
    results,     \* the dict results, as the sequence of its items
    lookups,     \* history: every lookup made, in order
    saveStatus,  \* history: how save_results_to_json ended
    files,       \* the file system: path -> document
    wrote,       \* history: paths written completely by this run
    ip_list,      \* ip_list of push_to_git
    calls,       \* history: git commands that ran, with their outcome
    exitCode     \* exit status once pc = "exited"

nvars == <<nPc, nTok, nHost, nAgain>>
cvars == <<cPc, cRes, cList, cAgain>>
pvars == <<pc, content, no_git, output, readStatus, domains, idx, results,
           lookups, saveStatus, files, wrote, ip_list, calls, exitCode>>
vars == <<nvars, cvars, pvars>>

NormIdle == nPc = "off" /\ nTok = <<>> /\ nHost = <<>> /\ nAgain = <<>>
CatIdle == cPc = "off" /\ cRes = <<>> /\ cList = <<>> /\ cAgain = <<>>

PipeIdle ==
    /\ pc = "off" /\ content = <<>> /\ no_git = FALSE /\ output = "" /\ readStatus = ""
    /\ domains = <<>> /\ idx = 0 /\ results = <<>> /\ lookups = <<>> /\ files = <<>>
    /\ saveStatus = "" /\ wrote = {} /\ ip_list = <<>> /\ calls = <<>> /\ exitCode = 0

\* ------------------------------------------------------- normalizer runs
Pieces ==
    { HttpPrefix, HttpsPrefix, WwwPrefix, Slash, <<" ">>, <<"a">>, <<".">> }

RECURSIVE Concat(_)
Concat(ps) == IF ps = <<>> THEN <<>> ELSE Head(ps) \o Concat(Tail(ps))

RawTokens ==
    { Concat(ps) : ps \in UNION { [1..n -> Pieces] : n \in 0..MaxPieces } }

NormInit ==
    /\ nPc = "raw"
    /\ nTok \in RawTokens
    /\ nHost = <<>>
    /\ nAgain = <<>>
    /\ CatIdle
    /\ PipeIdle

\* resolve_domain_ips up to the getaddrinfo call
Normalize ==
    /\ nPc = "raw"
    /\ nHost' = clean_domain(nTok)
    /\ nPc' = "once"
    /\ UNCHANGED <<nTok, nAgain, cvars, pvars>>

\* the resulting name fed to resolve_domain_ips again
Renormalize ==
    /\ nPc = "once"
    /\ nAgain' = clean_domain(nHost)
    /\ nPc' = "twice"
    /\ UNCHANGED <<nTok, nHost, cvars, pvars>>

NormNext == Normalize \/ Renormalize

\* ------------------------------------------------------------ containers
Range(s) == { s[i] : i \in 1..Len(s) }

\* the IP address strings used as resolver answers, as code points
Ip1_1 == <<49, 46, 49>>          \* "1.1"
Ip1_10 == <<49, 46, 49, 48>>     \* "1.10"
Ip1_2 == <<49, 46, 50>>          \* "1.2"
Ip9_1 == <<57, 46, 49>>          \* "9.1"

RECURSIVE Dedup(_, _)
\* the loop "for addr_info in result: if ip not in ips: ips.append(ip)"
Dedup(answer, ips) ==
    IF answer = <<>> THEN ips
    ELSE Dedup(Tail(answer),
               IF Head(answer) \in Range(ips) THEN ips ELSE Append(ips, Head(answer)))

\* a dict that moves an assigned key to the end
DictSetMoveToEnd(d, k, v) ==
    Append(SelectSeq(d, LAMBDA it : it.key # k), [key |-> k, ips |-> v])

\* results[domain] = ips on a dict kept as the sequence of its items: an
\* existing key keeps its position and takes the new value
DictSet(d, k, v) ==
    IF \E i \in 1..Len(d) : d[i].key = k
    THEN [i \in 1..Len(d) |-> IF d[i].key = k THEN [key |-> k, ips |-> v] ELSE d[i]]
    ELSE Append(d, [key |-> k, ips |-> v])

RECURSIVE StrLess(_, _)
\* a < b on Python strings: code point by code point, a proper prefix first
StrLess(a, b) ==
    IF b = <<>> THEN FALSE
    ELSE IF a = <<>> THEN TRUE
    ELSE IF Head(a) # Head(b) THEN Head(a) < Head(b)
    ELSE StrLess(Tail(a), Tail(b))

RECURSIVE InsertSorted(_, _)
InsertSorted(x, s) ==
    IF s = <<>> THEN <<x>>
    ELSE IF StrLess(x, Head(s)) THEN <<x>> \o s
    ELSE <<Head(s)>> \o InsertSorted(x, Tail(s))

RECURSIVE SortedList(_)
\* sorted(lst) on a list of strings
SortedList(lst) ==
    IF lst = <<>> THEN <<>> ELSE InsertSorted(Head(lst), SortedList(Tail(lst)))

RECURSIVE IpSet(_)
\* the two nested loops filling ip_set
IpSet(res) ==
    IF res = <<>> THEN {} ELSE Range(Head(res).ips) \cup IpSet(Tail(res))

\* list(ip_set): the elements of a set, in an order the set decides
Listings(S) ==
    { l \in [1..Cardinality(S) -> S] : \A i, j \in 1..Cardinality(S) : i # j => l[i] # l[j] }

\* a catalog derivation that returns list(ip_set) as it comes
IpListUnsorted(res) == Listings(IpSet(res))

\* create_ip_list_for_git: the lists it can return, one for every order in
\* which the set can list its elements
create_ip_list_for_git(res) == { SortedList(l) : l \in Listings(IpSet(res)) }

\* --------------------------------------------------- catalog derivations
CatKeys == { <<"a">>, <<"b">>, <<"a", " ", "a">> }
CatIps == { Ip1_1, Ip1_10, Ip1_2 }

\* the lists resolve_domain_ips can return: no duplicates
IpLists(pool, n) ==
    { l \in UNION { [1..k -> pool] : k \in 0..n } :
        \A i, j \in 1..Len(l) : i # j => l[i] # l[j] }

\* the dicts main can build: distinct keys in any order
Mappings ==
    { m \in UNION { [1..k -> [key : CatKeys, ips : IpLists(CatIps, 2)]] : k \in 0..MaxKeys } :
        \A i, j \in 1..Len(m) : i # j => m[i].key # m[j].key }

Reverse(s) == [i \in 1..Len(s) |-> s[Len(s) + 1 - i]]

CatInit ==
    /\ cPc = "given"
    /\ cRes \in Mappings
    /\ cList = <<>>
    /\ cAgain = <<>>
    /\ NormIdle
    /\ PipeIdle

\* create_ip_list_for_git(results)
Derive ==
    /\ cPc = "given"
    /\ cList' \in create_ip_list_for_git(cRes)
    /\ cPc' = "derived"
    /\ UNCHANGED <<cRes, cAgain, nvars, pvars>>

\* create_ip_list_for_git on the same mapping with its keys in another order
\* and its value lists possibly reversed
DeriveAgain ==
    /\ cPc = "derived"
    /\ \E perm \in Listings(1..Len(cRes)), rev \in BOOLEAN :
          LET other == [i \in 1..Len(cRes) |->
                          [key |-> cRes[perm[i]].key,
                           ips |-> IF rev THEN Reverse(cRes[perm[i]].ips)
                                   ELSE cRes[perm[i]].ips]]
          IN cAgain' \in create_ip_list_for_git(other)
    /\ cPc' = "again"
    /\ UNCHANGED <<cRes, cList, nvars, pvars>>

CatNext == Derive \/ DeriveAgain

\* ------------------------------------------------------------ the reader
RECURSIVE KeepAllPieces(_)
\* a reader that strips the pieces and keeps the empty ones
KeepAllPieces(pieces) ==
    IF pieces = <<>> THEN <<>>
    ELSE <<Strip(Head(pieces))>> \o KeepAllPieces(Tail(pieces))

RECURSIVE StripNonEmpty(_)
\* [domain.strip() for domain in pieces if domain.strip()]
StripNonEmpty(pieces) ==
    IF pieces = <<>> THEN <<>>
    ELSE (IF Strip(Head(pieces)) # <<>> THEN <<Strip(Head(pieces))>> ELSE <<>>)
         \o StripNonEmpty(Tail(pieces))

\* the list read_domains_from_file returns for a readable file
read_domains_from_file(text) == StripNonEmpty(Split(Strip(text), Comma))

\* ----------------------------------------------------------- file system
PrimaryDefault == "ip_results.json"
GitJson == "iplist.json"
GitTxt == "iplist.txt"
Paths == {PrimaryDefault, GitJson, GitTxt}

Absent == [fmt |-> "absent", items |-> <<>>, complete |-> FALSE]
\* json.dump(results, ...): an object, one member per dict item, in dict order
JsonObject(d) == [fmt |-> "object", items |-> d, complete |-> TRUE]
\* json.dump(ip_list, ...): an array
JsonArray(l) == [fmt |-> "array", items |-> l, complete |-> TRUE]
\* one "ip\n" line per element
TextLines(l) == [fmt |-> "lines", items |-> l, complete |-> TRUE]
\* what a write that fails after open() leaves: the first k items, unfinished
Truncated(doc, k) == [doc EXCEPT !.items = SubSeq(doc.items, 1, k), !.complete = FALSE]

\* no file of an earlier run
FreshDisk == [p \in Paths |-> Absent]
\* the files an earlier run that resolved one domain left behind
EarlierDisk ==
    [p \in Paths |->
        IF p = PrimaryDefault THEN JsonObject(<<[key |-> <<"a">>, ips |-> <<Ip9_1>>]>>)
        ELSE IF p = GitJson THEN JsonArray(<<Ip9_1>>)
        ELSE TextLines(<<Ip9_1>>)]

\* ------------------------------------------------------------ one run
ContentChars == {"a", "b", ",", " "}
Contents == UNION { [1..n -> ContentChars] : n \in 0..MaxContentLen }
\* the address lists getaddrinfo can answer with: one address, or two
\* addresses of which one is listed twice
Answers == { <<Ip1_2>>, <<Ip1_2, Ip1_10, Ip1_2>> }

Init ==
    /\ pc = "start"
    /\ content \in Contents
    /\ no_git \in BOOLEAN
    /\ output = PrimaryDefault
    /\ files \in {FreshDisk, EarlierDisk}
    /\ readStatus = ""
    /\ saveStatus = ""
    /\ domains = <<>>
    /\ idx = 0
    /\ results = <<>>
    /\ lookups = <<>>
    /\ wrote = {}
    /\ ip_list = <<>>
    /\ calls = <<>>
    /\ exitCode = 0
    /\ NormIdle
    /\ CatIdle

\* sys.exit(code)
Exit(code) == pc' = "exited" /\ exitCode' = code

\* read_domains_from_file: the path does not exist
ReadMissing ==
    /\ pc = "start"
    /\ readStatus' = "FileNotFoundError"
    /\ Exit(1)
    /\ UNCHANGED <<content, no_git, output, domains, idx, results, lookups,
                   saveStatus, files,
                   wrote, ip_list, calls, nvars, cvars>>

\* read_domains_from_file: any other failure of open() or read()
ReadFails ==
    /\ pc = "start"
    /\ readStatus' = "Exception"
    /\ Exit(1)
    /\ UNCHANGED <<content, no_git, output, domains, idx, results, lookups,
                   saveStatus, files,
                   wrote, ip_list, calls, nvars, cvars>>

\* read_domains_from_file succeeds; main stops when the list is empty
ReadDomains ==
    /\ pc = "start"
    /\ readStatus' = "ok"
    /\ domains' = read_domains_from_file(content)
    /\ IF domains' = <<>>
       THEN Exit(1) /\ UNCHANGED idx
       ELSE pc' = "resolve" /\ idx' = 1 /\ UNCHANGED exitCode
    /\ UNCHANGED <<content, no_git, output, results, lookups, saveStatus,
                   files, wrote, ip_list,
                   calls, nvars, cvars>>

\* the end of one loop iteration of main: results[domain] = ips
Record(domain, failed, ips) ==
    /\ results' = DictSet(results, domain, ips)
    /\ lookups' = Append(lookups, [domain |-> domain, host |-> clean_domain(domain),
                                   failed |-> failed, ips |-> ips])
    /\ idx' = idx + 1
    /\ pc' = IF idx < Len(domains) THEN "resolve" ELSE "save"
    /\ UNCHANGED <<content, no_git, output, readStatus, domains, saveStatus, files,
                   wrote, ip_list,
                   calls, exitCode, nvars, cvars>>

\* one iteration: getaddrinfo answers
ResolveFound ==
    /\ pc = "resolve"
    /\ \E answer \in Answers : Record(domains[idx], FALSE, Dedup(answer, <<>>))

\* an iteration whose socket.gaierror is not caught: the run ends there
ResolveGaierrorAborts ==
    /\ pc = "resolve"
    /\ lookups' = Append(lookups, [domain |-> domains[idx], host |-> clean_domain(domains[idx]),
                                   failed |-> TRUE, ips |-> <<>>])
    /\ Exit(1)
    /\ UNCHANGED <<content, no_git, output, readStatus, domains, idx, results, saveStatus,
                   files, wrote, ip_list, calls, nvars, cvars>>

\* one iteration: getaddrinfo raises socket.gaierror
ResolveGaierror ==
    /\ pc = "resolve"
    /\ Record(domains[idx], TRUE, <<>>)

\* one iteration: the lookup raises another exception
ResolveError ==
    /\ pc = "resolve"
    /\ Record(domains[idx], TRUE, <<>>)

\* save_results_to_json: open() fails
SaveOpenFails ==
    /\ pc = "save"
    /\ saveStatus' = "open_failed"
    /\ Exit(1)
    /\ UNCHANGED <<content, no_git, output, readStatus, domains, idx, results, lookups,
                   files, wrote, ip_list, calls, nvars, cvars>>

\* save_results_to_json: json.dump fails part of the way
SaveWriteFails ==
    /\ pc = "save"
    /\ \E k \in 0..Len(results) :
          files' = [files EXCEPT ![output] = Truncated(JsonObject(results), k)]
    /\ saveStatus' = "write_failed"
    /\ Exit(1)
    /\ UNCHANGED <<content, no_git, output, readStatus, domains, idx, results, lookups,
                   wrote, ip_list, calls, nvars, cvars>>

\* save_results_to_json succeeds
SaveResults ==
    /\ pc = "save"
    /\ files' = [files EXCEPT ![output] = JsonObject(results)]
    /\ wrote' = wrote \cup {output}
    /\ saveStatus' = "ok"
    /\ pc' = "summary"
    /\ UNCHANGED <<content, no_git, output, readStatus, domains, idx, results, lookups,
                   ip_list, calls, exitCode, nvars, cvars>>

RECURSIVE total_ips(_)
\* total_ips = sum(len(ips) for ips in results.values())
total_ips(res) == IF res = <<>> THEN 0 ELSE Len(Head(res).ips) + total_ips(Tail(res))

\* a main that publishes whatever the flag says
AfterSummaryAlwaysPush == "git_json"

\* main after the summary: "if not args.no_git" decides what comes next
AfterSummary == IF ~no_git THEN "git_json" ELSE "return"

\* the summary and the branch on --no-git; main returns when it is set
Summary ==
    /\ pc = "summary"
    /\ IF AfterSummary = "return"
       THEN Exit(0)
       ELSE pc' = AfterSummary /\ UNCHANGED exitCode
    /\ UNCHANGED <<content, no_git, output, readStatus, domains, idx, results, lookups,
                   saveStatus,
                   files, wrote, ip_list, calls, nvars, cvars>>

\* a handler that ends the run with sys.exit(1)
CaughtIsFatal == Exit(1)

\* push_to_git's handlers: both print and return, and main ends
Caught == Exit(0)

\* push_to_git: ip_list is built, open(iplist.json) fails
GitJsonOpenFails ==
    /\ pc = "git_json"
    /\ ip_list' \in create_ip_list_for_git(results)
    /\ Caught
    /\ UNCHANGED <<content, no_git, output, readStatus, domains, idx, results, lookups,
                   saveStatus,
                   files, wrote, calls, nvars, cvars>>

\* push_to_git: ip_list is built, json.dump to iplist.json fails part of the way
GitJsonWriteFails ==
    /\ pc = "git_json"
    /\ ip_list' \in create_ip_list_for_git(results)
    /\ \E k \in 0..Len(ip_list') :
          files' = [files EXCEPT ![GitJson] = Truncated(JsonArray(ip_list'), k)]
    /\ Caught
    /\ UNCHANGED <<content, no_git, output, readStatus, domains, idx, results, lookups,
                   saveStatus,
                   wrote, calls, nvars, cvars>>

\* push_to_git: ip_list is built and written to iplist.json
GitJsonWrite ==
    /\ pc = "git_json"
    /\ ip_list' \in create_ip_list_for_git(results)
    /\ files' = [files EXCEPT ![GitJson] = JsonArray(ip_list')]
    /\ wrote' = wrote \cup {GitJson}
    /\ pc' = "git_txt"
    /\ UNCHANGED <<content, no_git, output, readStatus, domains, idx, results, lookups,
                   saveStatus,
                   calls, exitCode, nvars, cvars>>

\* push_to_git: open(iplist.txt) fails
GitTxtOpenFails ==
    /\ pc = "git_txt"
    /\ Caught
    /\ UNCHANGED <<content, no_git, output, readStatus, domains, idx, results, lookups,
                   saveStatus,
                   files, wrote, ip_list, calls, nvars, cvars>>

\* push_to_git: a file.write to iplist.txt fails part of the way
GitTxtWriteFails ==
    /\ pc = "git_txt"
    /\ \E k \in 0..Len(ip_list) :
          files' = [files EXCEPT ![GitTxt] = Truncated(TextLines(ip_list), k)]
    /\ Caught
    /\ UNCHANGED <<content, no_git, output, readStatus, domains, idx, results, lookups,
                   saveStatus,
                   wrote, ip_list, calls, nvars, cvars>>

\* a text writer that loops over ip_set instead of ip_list
GitTxtWriteFromSet ==
    /\ pc = "git_txt"
    /\ \E l \in Listings(IpSet(results)) :
          files' = [files EXCEPT ![GitTxt] = TextLines(l)]
    /\ wrote' = wrote \cup {GitTxt}
    /\ pc' = "git_add"
    /\ UNCHANGED <<content, no_git, output, readStatus, domains, idx, results, lookups,
                   saveStatus, ip_list, calls, exitCode, nvars, cvars>>

\* push_to_git: iplist.txt is written
GitTxtWrite ==
    /\ pc = "git_txt"
    /\ files' = [files EXCEPT ![GitTxt] = TextLines(ip_list)]
    /\ wrote' = wrote \cup {GitTxt}
    /\ pc' = "git_add"
    /\ UNCHANGED <<content, no_git, output, readStatus, domains, idx, results, lookups,
                   saveStatus,
                   ip_list, calls, exitCode, nvars, cvars>>

\* a subprocess.run that goes on whatever the status (check=False)
AfterGitUnchecked(ok, next) ==
    IF next = "return" THEN Exit(0) ELSE pc' = next /\ UNCHANGED exitCode

\* subprocess.run(..., check=True): CalledProcessError on a non-zero status,
\* caught by push_to_git; otherwise on to the next statement
AfterGit(ok, next) ==
    IF ~ok THEN Caught
    ELSE IF next = "return" THEN Exit(0)
    ELSE pc' = next /\ UNCHANGED exitCode

\* one git command that ran and returned a status
RunGit(cmd, next) ==
    /\ \E ok \in BOOLEAN :
          /\ calls' = Append(calls, [cmd |-> cmd, ok |-> ok,
                                     domains_count |-> Len(domains),
                                     ips_count |-> total_ips(results)])
          /\ AfterGit(ok, next)
    /\ UNCHANGED <<content, no_git, output, readStatus, domains, idx, results, lookups,
                   saveStatus,
                   files, wrote, ip_list, nvars, cvars>>

\* git add iplist.json iplist.txt
GitAdd == pc = "git_add" /\ RunGit("add", "git_commit")

\* git commit -m <message with the two counts>
GitCommit == pc = "git_commit" /\ RunGit("commit", "git_push")

\* git push origin master, the last statement of push_to_git
GitPush == pc = "git_push" /\ RunGit("push", "return")

\* subprocess.run cannot start git: an OSError, caught by push_to_git
GitNotStarted ==
    /\ pc \in {"git_add", "git_commit", "git_push"}
    /\ Caught
    /\ UNCHANGED <<content, no_git, output, readStatus, domains, idx, results, lookups,
                   saveStatus,
                   files, wrote, ip_list, calls, nvars, cvars>>

Next ==
    \/ ReadMissing \/ ReadFails \/ ReadDomains
    \/ ResolveFound \/ ResolveGaierror \/ ResolveError
    \/ SaveOpenFails \/ SaveWriteFails \/ SaveResults
    \/ Summary
    \/ GitJsonOpenFails \/ GitJsonWriteFails \/ GitJsonWrite
    \/ GitTxtOpenFails \/ GitTxtWriteFails \/ GitTxtWrite
    \/ GitAdd \/ GitCommit \/ GitPush \/ GitNotStarted

Spec == Init /\ [][Next]_vars

\* ================================================================ claims
\* ---- reference definitions used by the properties (not the code's own)
Keys(d) == [i \in 1..Len(d) |-> d[i].key]

\* the value a serialized object holds for a key
ValueOf(d, k) == (CHOOSE it \in Range(d) : it.key = k).ips

RECURSIVE FirstOccurrences(_, _)
\* the elements of a sequence in the order of their first occurrence
FirstOccurrences(s, seen) ==
    IF s = <<>> THEN <<>>
    ELSE IF Head(s) \in seen THEN FirstOccurrences(Tail(s), seen)
    ELSE <<Head(s)>> \o FirstOccurrences(Tail(s), seen \cup {Head(s)})

\* s without its leading and trailing whitespace, by position
RefTrim(s) ==
    LET inked == { i \in 1..Len(s) : s[i] \notin Whitespace }
    IN IF inked = {} THEN <<>>
       ELSE SubSeq(s, CHOOSE i \in inked : \A j \in inked : i <= j,
                      CHOOSE i \in inked : \A j \in inked : i >= j)

\* the comma-free stretches of a text, left to right
RefFields(text) ==
    LET cuts == { i \in 1..Len(text) : text[i] = "," } \cup {0, Len(text) + 1}
        starts == { c \in cuts : c <= Len(text) }
        NextCut(c) == CHOOSE d \in cuts : d > c /\ \A e \in cuts : e > c => d <= e
        RECURSIVE From(_)
        From(c) == <<SubSeq(text, c + 1, NextCut(c) - 1)>>
                   \o (IF NextCut(c) \in starts THEN From(NextCut(c)) ELSE <<>>)
    IN From(0)

\* the raw tokens of an input text: its trimmed, non-empty fields
RefTokens(text) ==
    LET fields == RefFields(text)
        trimmed == [i \in 1..Len(fields) |-> RefTrim(fields[i])]
    IN SelectSeq(trimmed, LAMBDA t : t # <<>>)

\* the reference normalization: trim, drop one scheme, drop one www., keep
\* what precedes the first '/'
RefNormalize(t) ==
    LET a == RefTrim(t)
        b == IF Len(a) >= 7 /\ SubSeq(a, 1, 7) = HttpPrefix THEN SubSeq(a, 8, Len(a))
             ELSE IF Len(a) >= 8 /\ SubSeq(a, 1, 8) = HttpsPrefix THEN SubSeq(a, 9, Len(a))
             ELSE a
        c == IF Len(b) >= 4 /\ <<b[1], b[2], b[3], b[4]>> = WwwPrefix
             THEN SubSeq(b, 5, Len(b)) ELSE b
        k == CHOOSE n \in 0..Len(c) :
                /\ \A j \in 1..n : c[j] # "/"
                /\ n < Len(c) => c[n + 1] = "/"
    IN SubSeq(c, 1, k)

\* a < b in code point order, stated by the first position where they differ
RefLess(a, b) ==
    \E k \in 1..Len(b) :
        /\ \A j \in 1..(k - 1) : j <= Len(a) /\ a[j] = b[j]
        /\ k > Len(a) \/ a[k] < b[k]

LoopDone == readStatus = "ok" /\ domains # <<>> /\ pc \notin {"start", "resolve"}

\* ---- C1
\* C1: once the primary output is written, the keys of the object it holds
\* are the raw tokens of the input text, each once, in the order of their
\* first occurrence, also when a token occurs several times.
C1_PrimaryKeysAreRawTokens ==
    output \in wrote =>
        /\ files[output].fmt = "object" /\ files[output].complete
        /\ Keys(files[output].items) = FirstOccurrences(RefTokens(content), {})

C1_Witness ==
    /\ output \in wrote
    /\ Len(domains) = 3 /\ domains[1] = domains[3] /\ domains[1] # domains[2]
    /\ lookups[1].ips # lookups[3].ips
    /\ Len(files[output].items) = 2

\* ---- C2
\* C2 as claimed: every domain with a failed lookup has an empty list in the
\* output mapping, every token is looked up, and the run ends with the
\* primary output written unless the write itself fails.
C2_FailedDomainHasEmptyList ==
    /\ LoopDone => Len(lookups) = Len(domains)
    /\ pc = "exited" /\ lookups # <<>> => saveStatus # ""
    /\ output \in wrote =>
          \A j \in 1..Len(lookups) :
             lookups[j].failed => ValueOf(files[output].items, lookups[j].domain) = <<>>

\* C2 amended: a domain whose last lookup failed has an empty list in the
\* output mapping (a later lookup of the same raw token replaces the value);
\* a failed lookup never ends the run: every token of the input is looked up
\* in order, and the run reaches the write of the primary output.
C2_LastFailedLookupGivesEmptyList ==
    /\ pc = "resolve" => Len(lookups) = idx - 1 /\ idx <= Len(domains)
    /\ LoopDone => Len(lookups) = Len(domains)
    /\ \A j \in 1..Len(lookups) :
          /\ lookups[j].domain = domains[j]
          /\ lookups[j].failed => lookups[j].ips = <<>>
    /\ pc = "exited" /\ lookups # <<>> => saveStatus # ""
    /\ output \in wrote =>
          \A j \in 1..Len(lookups) :
             /\ lookups[j].domain \in Range(Keys(files[output].items))
             /\ (\A l \in (j + 1)..Len(lookups) : lookups[l].domain # lookups[j].domain)
                   => ValueOf(files[output].items, lookups[j].domain) = lookups[j].ips

C2_Witness ==
    /\ output \in wrote
    /\ Len(lookups) = 3
    /\ lookups[1].failed /\ ~lookups[2].failed /\ lookups[3].failed
    /\ lookups[1].domain # lookups[3].domain
    /\ ValueOf(files[output].items, lookups[1].domain) = <<>>

\* ---- C3
\* C3: the run exits non-zero exactly when the input cannot be read, holds no
\* token, or the primary output cannot be written; every other run exits 0
\* with the primary output on disk, whatever the lookups, the catalog writes
\* and the git commands did.
C3_ExitCode ==
    pc = "exited" =>
        /\ exitCode \in {0, 1}
        /\ exitCode # 0 <=>
              \/ readStatus \in {"FileNotFoundError", "Exception"}
              \/ readStatus = "ok" /\ domains = <<>>
              \/ saveStatus \in {"open_failed", "write_failed"}
        /\ exitCode = 0 =>
              /\ output \in wrote
              /\ files[output] = JsonObject(results)

C3_Witness ==
    /\ pc = "exited" /\ exitCode = 0
    /\ \A j \in 1..Len(lookups) : lookups[j].failed
    /\ Len(calls) = 3 /\ ~calls[3].ok

\* ---- C4
\* C4 as claimed: normalizing a normalized name changes nothing.
C4_Idempotent == nPc = "twice" => nAgain = nHost

\* C4 amended: normalizing a normalized name changes nothing when that name
\* neither begins with www. nor starts or ends with whitespace.
C4_IdempotentOnCleanNames ==
    nPc = "twice" /\ RefTrim(nHost) = nHost
                  /\ ~(Len(nHost) >= 4 /\ SubSeq(nHost, 1, 4) = WwwPrefix)
        => nAgain = nHost

C4_Witness ==
    /\ nPc = "twice"
    /\ nTok = HttpPrefix \o WwwPrefix \o <<"a">> \o Slash
    /\ nHost = <<"a">> /\ nAgain = <<"a">>

\* ---- C5
\* C5: the name handed to the resolver is the reference normalization of the
\* raw token, and the normalization cannot raise: the split on "://" is only
\* indexed when the separator is there.
C5_HostIsReference ==
    nPc \in {"once", "twice"} =>
        /\ nHost = RefNormalize(nTok)
        /\ (StartsWith(Strip(nTok), HttpPrefix) \/ StartsWith(Strip(nTok), HttpsPrefix))
              => Len(Split(Strip(nTok), SchemeSep)) >= 2

C5_Witness ==
    /\ nPc = "once"
    /\ nTok = <<" ">> \o HttpsPrefix \o WwwPrefix \o WwwPrefix
    /\ nHost = WwwPrefix

\* ---- C6
\* C6: the derived catalog is strictly ascending in code point order (sorted,
\* no duplicates), holds exactly the IPs of the value lists, and a second
\* derivation from the same mapping in another order gives the same list.
C6_CatalogSortedUnique ==
    /\ cPc \in {"derived", "again"} =>
          /\ \A i \in 1..(Len(cList) - 1) : RefLess(cList[i], cList[i + 1])
          /\ Range(cList) = UNION { Range(cRes[i].ips) : i \in 1..Len(cRes) }
    /\ cPc = "again" => cAgain = cList

C6_Witness ==
    /\ cPc = "again"
    /\ cRes = << [key |-> <<"b">>, ips |-> <<Ip1_2, Ip1_10>>],
                 [key |-> <<"a">>, ips |-> <<Ip1_10, Ip1_1>>] >>
    /\ cList = <<Ip1_1, Ip1_10, Ip1_2>>

\* ---- C7
Publishing == pc \in {"git_json", "git_txt", "git_add", "git_commit", "git_push"}

C8_NoGitNoVcs ==
    no_git =>
        /\ calls = <<>>
        /\ ~Publishing
        /\ wrote \subseteq {output}
        /\ (pc = "exited" /\ readStatus = "ok" /\ domains # <<>>
              /\ saveStatus \notin {"open_failed", "write_failed"})
             => exitCode = 0 /\ output \in wrote /\ files[output] = JsonObject(results)

C8_Witness ==
    /\ no_git /\ pc = "exited" /\ exitCode = 0
    /\ output \in wrote /\ Len(results) = 2

\* ---- C9
OnlyCommasAndWhitespace(text) == \A i \in 1..Len(text) : text[i] \in Whitespace \cup {","}

\* C9: a readable input that holds nothing but commas and whitespace yields
\* no token; the run exits 1 without any lookup, file write or git command.
C9_EmptyInputStops ==
    readStatus = "ok" /\ OnlyCommasAndWhitespace(content) =>
        /\ domains = <<>>
        /\ pc = "exited" /\ exitCode = 1
        /\ lookups = <<>> /\ results = <<>>
        /\ wrote = {} /\ saveStatus = "" /\ files \in {FreshDisk, EarlierDisk}
        /\ calls = <<>>

C9_Witness ==
    /\ readStatus = "ok" /\ pc = "exited"
    /\ content = <<" ", ",", ",", " ">>

\* ---- C10
GitOrder == <<"add", "commit", "push">>

\* C10: the git commands that ran are a prefix of add, commit, push; every
\* one but the last succeeded; and none runs before the primary output and
\* both catalog files are written.
C10_VcsOrder ==
    /\ Len(calls) <= 3
    /\ \A i \in 1..Len(calls) : calls[i].cmd = GitOrder[i]
    /\ \A i \in 1..(Len(calls) - 1) : calls[i].ok
    /\ calls # <<>> => saveStatus = "ok" /\ wrote = {output, GitJson, GitTxt}
    /\ pc \in {"git_add", "git_commit", "git_push"} => wrote = {output, GitJson, GitTxt}
    /\ saveStatus \in {"open_failed", "write_failed"} => calls = <<>> /\ pc = "exited"

C10_Witness ==
    /\ pc = "exited"
    /\ Len(calls) = 2 /\ calls[1].ok /\ ~calls[2].ok

SpecNorm == NormInit /\ [][NormNext]_vars

SpecCatalog == CatInit /\ [][CatNext]_vars

====
